---- MODULE Spec2Model ----
(***************************************************************************)
(* Model of src/index.ts: the dependency graph of a polyglot monorepo      *)
(* (apps and packages), the circular-dependency check, the materializer    *)
(* process_dep over a filesystem with symbolic links, process_all_deps,    *)
(* the gRPC stub driver and the link / clone / grpc command handlers.      *)
(*                                                                         *)
(* Paths are sequences of segments relative to the working directory;      *)
(* path.resolve(p) is the same sequence read from the working directory.   *)
(***************************************************************************)
EXTENDS Naturals, Integers, Sequences, FiniteSets, TLC

VARIABLES
  repos,      \* ReposWithDeps read from disk: [apps: Seq(Repo), packages: Seq(Repo)]
  fs,         \* the workspace: path -> node, for the paths that exist
  pc,         \* "menu" | "process" | "grpc" | "exited"
  cmd,        \* the command chosen at the menu: "none" | "link" | "clone" | "grpc"
  chk,        \* outcome of check_circular_deps in the current command
  i,          \* index of the next step of process_all_deps / create_all_grpc_stubs
  dep,        \* the process_dep call last made (or, in SpecDep, under study)
  calls,      \* process_dep calls of the current command, in order
  gens,       \* generator invocations of the current command, in order
  out,        \* console lines of the current command that the claims read
  fs0,        \* the workspace as it was when the current command started
  exitCode,   \* process exit status once pc = "exited", else -1
  runs        \* number of commands started in this session

vars == <<repos, fs, pc, cmd, chk, i, dep, calls, gens, out, fs0, exitCode, runs>>

-----------------------------------------------------------------------------
(* Bounds *)

\* total number of dependency declarations over all deps.yaml files
MaxDeps == 2
\* number of commands chosen at the menu in one session
MaxRuns == 2

\* directory names a workspace may hold under apps/ and under packages/,
\* in the order readdirSync lists them
NameOrder == <<"a", "b">>
Names == {NameOrder[n] : n \in 1..Len(NameOrder)}
Kinds == {"apps", "packages"}

-----------------------------------------------------------------------------
(* Sequence helpers *)

RECURSIVE Flatten(_)
Flatten(ss) == IF Len(ss) = 0 THEN <<>> ELSE Head(ss) \o Flatten(Tail(ss))

Map(s, f(_)) == [n \in 1..Len(s) |-> f(s[n])]

Range(s) == {s[n] : n \in 1..Len(s)}

IsPrefix(p, q) == Len(p) <= Len(q) /\ \A n \in 1..Len(p) : p[n] = q[n]

-----------------------------------------------------------------------------
(* The dependency graph: types Repo, Deps, ReposWithDeps *)

\* one entry of a deps.yaml, as read_deps normalises it
Decl == [ckind : Kinds, cname : Names, list : Kinds, dname : Names, grpc : BOOLEAN]

DeclsFor(discA, discP) ==
  {d \in Decl : /\ d.cname \in (IF d.ckind = "apps" THEN discA ELSE discP)
                /\ (d.list = "apps" => ~d.grpc)}

\* read_deps: the apps list and the normalised packages list of one repo
read_deps(decls, kind, name) ==
  LET mine(l) == SelectSeq(decls, LAMBDA d : d.ckind = kind /\ d.cname = name /\ d.list = l)
  IN [apps     |-> Map(mine("apps"), LAMBDA d : d.dname),
      packages |-> Map(mine("packages"), LAMBDA d : [name |-> d.dname, grpc |-> d.grpc])]

\* get_repos: the directories under apps/ and packages/
get_repos(discA, discP) ==
  [apps     |-> SelectSeq(NameOrder, LAMBDA n : n \in discA),
   packages |-> SelectSeq(NameOrder, LAMBDA n : n \in discP)]

get_repos_with_deps(discA, discP, decls) ==
  LET rs == get_repos(discA, discP)
  IN [apps     |-> Map(rs.apps, LAMBDA n : [name |-> n, deps |-> read_deps(decls, "apps", n)]),
      packages |-> Map(rs.packages, LAMBDA n : [name |-> n, deps |-> read_deps(decls, "packages", n)])]

Workspaces ==
  {get_repos_with_deps(A, P, ds) :
     <<A, P, ds>> \in {x \in (SUBSET Names) \X (SUBSET Names) \X
                              UNION {[1..n -> Decl] : n \in 0..MaxDeps} :
                         Range(x[3]) \subseteq DeclsFor(x[1], x[2])}}

-----------------------------------------------------------------------------
(* check_circular_deps *)

all_repos(rs) == rs.apps \o rs.packages

\* all_repos.find((r) => r.name === dep_name): index of the first match, 0 if none
find(all, dep_name) ==
  IF \E n \in 1..Len(all) : all[n].name = dep_name
  THEN CHOOSE n \in 1..Len(all) :
         all[n].name = dep_name /\ \A m \in 1..(n - 1) : all[m].name # dep_name
  ELSE 0

all_deps(repo) == repo.deps.apps \o Map(repo.deps.packages, LAMBDA d : d.name)

\* st = [visited, stack: sets of names; expanded: indices of all_repos whose
\*       dependency list was expanded, in order]
RECURSIVE visit(_, _, _), visit_deps(_, _, _, _)
visit(all, n, st) ==
  LET name == all[n].name IN
  IF name \in st.stack THEN [ret |-> TRUE, st |-> st]
  ELSE IF name \in st.visited THEN [ret |-> FALSE, st |-> st]
  ELSE LET st1 == [visited  |-> st.visited \cup {name},
                   stack    |-> st.stack \cup {name},
                   expanded |-> Append(st.expanded, n)]
           r == visit_deps(all, all_deps(all[n]), 1, st1)
       IN IF r.ret THEN r
          ELSE [ret |-> FALSE, st |-> [r.st EXCEPT !.stack = @ \ {name}]]

visit_deps(all, deps, k, st) ==
  IF k > Len(deps) THEN [ret |-> FALSE, st |-> st]
  ELSE LET dep_repo == find(all, deps[k]) IN
       IF dep_repo = 0 THEN visit_deps(all, deps, k + 1, st)
       ELSE LET r == visit(all, dep_repo, st) IN
            IF r.ret THEN r ELSE visit_deps(all, deps, k + 1, r.st)

RECURSIVE check_loop(_, _, _)
check_loop(all, n, st) ==
  IF n > Len(all) THEN [ret |-> FALSE, diag |-> "", expanded |-> st.expanded]
  ELSE LET r == visit(all, n, st) IN
       IF r.ret THEN [ret |-> TRUE, diag |-> all[n].name, expanded |-> r.st.expanded]
       ELSE check_loop(all, n + 1, r.st)

\* a check that stops after the first repo of all_repos
check_first_repo_only(rs) ==
  LET all == all_repos(rs)
      r == visit(all, 1, [visited |-> {}, stack |-> {}, expanded |-> <<>>])
  IN IF Len(all) = 0 THEN [ret |-> FALSE, diag |-> "", expanded |-> <<>>]
     ELSE [ret |-> r.ret, diag |-> IF r.ret THEN all[1].name ELSE "", expanded |-> r.st.expanded]

check_circular_deps(rs) ==
  check_loop(all_repos(rs), 1, [visited |-> {}, stack |-> {}, expanded |-> <<>>])

NoCheck == [ret |-> FALSE, diag |-> "", expanded |-> <<>>]

-----------------------------------------------------------------------------
(* The filesystem: fs maps each existing path to its node.  The working     *)
(* directory <<>> always exists.  A symbolic link holds the absolute path   *)
(* it was created with.                                                     *)

Dir == [t |-> "dir", to |-> <<>>]
File == [t |-> "file", to |-> <<>>]
Symlink(p) == [t |-> "link", to |-> p]

Front(p) == SubSeq(p, 1, Len(p) - 1)

Fuel(f) == Cardinality(DOMAIN f) + 1

\* where the entry named by cur/rest lives, every component but the last
\* followed through symbolic links (what lstat looks at)
RECURSIVE lwalk(_, _, _, _)
lwalk(f, cur, rest, fuel) ==
  IF Len(rest) = 0 THEN [ok |-> TRUE, path |-> cur]
  ELSE IF Len(rest) = 1 THEN [ok |-> TRUE, path |-> cur \o rest]
  ELSE LET nxt == Append(cur, Head(rest)) IN
       IF nxt \notin DOMAIN f THEN [ok |-> FALSE, path |-> <<>>]
       ELSE IF f[nxt].t = "dir" THEN lwalk(f, nxt, Tail(rest), fuel)
       ELSE IF f[nxt].t = "link" /\ fuel > 0
            THEN lwalk(f, <<>>, f[nxt].to \o Tail(rest), fuel - 1)
       ELSE [ok |-> FALSE, path |-> <<>>]

lstat(f, p) ==
  LET l == lwalk(f, <<>>, p, Fuel(f)) IN
  IF l.ok /\ (l.path = <<>> \/ l.path \in DOMAIN f)
  THEN [ok |-> TRUE, path |-> l.path, node |-> IF l.path = <<>> THEN Dir ELSE f[l.path]]
  ELSE [ok |-> FALSE, path |-> IF l.ok THEN l.path ELSE <<>>, node |-> File]

\* stat: as lstat, the last component followed too
RECURSIVE stat_from(_, _, _)
stat_from(f, p, fuel) ==
  LET l == lwalk(f, <<>>, p, fuel) IN
  IF ~l.ok THEN [ok |-> FALSE, path |-> <<>>, node |-> File]
  ELSE IF l.path = <<>> THEN [ok |-> TRUE, path |-> <<>>, node |-> Dir]
  ELSE IF l.path \notin DOMAIN f THEN [ok |-> FALSE, path |-> <<>>, node |-> File]
  ELSE IF f[l.path].t = "link"
       THEN IF fuel > 0 THEN stat_from(f, f[l.path].to, fuel - 1)
            ELSE [ok |-> FALSE, path |-> <<>>, node |-> File]
  ELSE [ok |-> TRUE, path |-> l.path, node |-> f[l.path]]

stat(f, p) == stat_from(f, p, Fuel(f))

\* fs.existsSync follows symbolic links: a link to nothing does not "exist"
existsSync(f, p) == stat(f, p).ok

\* fs.mkdirSync(dir, { recursive: true })
RECURSIVE mkdir_from(_, _, _)
mkdir_from(f, cur, rest) ==
  IF Len(rest) = 0 THEN [ok |-> TRUE, fs |-> f]
  ELSE LET nxt == Append(cur, Head(rest)) IN
       IF nxt \notin DOMAIN f THEN mkdir_from(f @@ (nxt :> Dir), nxt, Tail(rest))
       ELSE IF f[nxt].t = "dir" THEN mkdir_from(f, nxt, Tail(rest))
       ELSE IF f[nxt].t = "link" /\ stat(f, nxt).ok /\ stat(f, nxt).node.t = "dir"
            THEN mkdir_from(f, stat(f, nxt).path, Tail(rest))
       ELSE [ok |-> FALSE, fs |-> f]

mkdirSync(f, dir) == mkdir_from(f, <<>>, dir)

\* fs.unlinkSync on the entry at canonical path p
unlinkSync(f, p) == [q \in DOMAIN f \ {p} |-> f[q]]

\* fs.rmSync(p, { recursive: true, force: true }) on the entry at canonical path p
rmSync(f, p) == [q \in {x \in DOMAIN f : ~IsPrefix(p, x)} |-> f[q]]

\* segments whose text contains ".git" or "node_modules"
Excluded == {".git", "node_modules"}

\* a copy without the filter option
filter_accepts_all(src) == TRUE

\* filter: (src) => !src.includes('node_modules') && !src.includes('.git')
filter(src) == \A n \in 1..Len(src) : src[n] \notin Excluded

\* fs.cpSync(path.resolve(src), dest, { recursive: true, filter }), lstat based
\* (dereference is off): checkPathsSync, checkParentPathsSync, then the copy
cpSync(f, src, dest) ==
  LET s == lstat(f, src)
      d == lstat(f, dest)
      anc(k) == SubSeq(dest, 1, k)
      inSelf == \E k \in 1..(Len(dest) - 1) :
                  /\ \A m \in k..(Len(dest) - 1) : anc(m) # Front(src) /\ stat(f, anc(m)).ok
                  /\ stat(f, anc(k)).path = s.path
      sub == {q \in DOMAIN f : IsPrefix(s.path, q) /\ Len(q) > Len(s.path)}
      rel(q) == SubSeq(q, Len(s.path) + 1, Len(q))
      kept == {q \in sub : filter(src \o rel(q))}
      made == {d.path} \cup {d.path \o rel(q) : q \in kept}
      from(x) == s.path \o SubSeq(x, Len(d.path) + 1, Len(x))
  IN
  IF ~filter(src) THEN [ok |-> TRUE, fs |-> f]
  ELSE IF ~s.ok \/ ~lwalk(f, <<>>, dest, Fuel(f)).ok THEN [ok |-> FALSE, fs |-> f]
  ELSE IF d.ok /\ (d.path = s.path \/ (s.node.t = "dir") # (d.node.t = "dir"))
       THEN [ok |-> FALSE, fs |-> f]
  ELSE IF s.node.t = "dir" /\ IsPrefix(src, dest) THEN [ok |-> FALSE, fs |-> f]
  ELSE IF s.node.t # "link" /\ inSelf THEN [ok |-> FALSE, fs |-> f]
  ELSE IF s.node.t = "dir"
       THEN [ok |-> TRUE,
             fs |-> [x \in DOMAIN f \cup made |-> IF x \in made THEN f[from(x)] ELSE f[x]]]
  ELSE IF s.node.t = "file"
       THEN [ok |-> TRUE, fs |-> [x \in DOMAIN f \cup {d.path} |-> IF x = d.path THEN File ELSE f[x]]]
  ELSE IF d.ok THEN [ok |-> FALSE, fs |-> f]
  ELSE [ok |-> TRUE, fs |-> f @@ (d.path :> s.node)]

\* fs.symlinkSync(path.resolve(src), target, 'dir')
symlinkSync(f, src, target) ==
  LET t == lwalk(f, <<>>, target, Fuel(f)) IN
  IF ~t.ok \/ t.path \in DOMAIN f THEN [ok |-> FALSE, fs |-> f]
  ELSE [ok |-> TRUE, fs |-> f @@ (t.path :> Symlink(src))]

-----------------------------------------------------------------------------
(* process_dep *)

\* the removal of an existing target
clear_target(f, target_path) ==
  IF existsSync(f, target_path)
  THEN IF lstat(f, target_path).node.t = "link"
       THEN unlinkSync(f, lstat(f, target_path).path)
       ELSE rmSync(f, lstat(f, target_path).path)
  ELSE f

\* a process_dep that returns once it has removed an existing target
process_dep_returns_after_removal(f, src_path, target_path, is_link) ==
  LET m == mkdirSync(f, Front(target_path)) IN
  IF ~m.ok THEN m
  ELSE IF existsSync(m.fs, target_path)
       THEN [ok |-> TRUE, fs |-> clear_target(m.fs, target_path)]
       ELSE IF is_link THEN symlinkSync(m.fs, src_path, target_path)
            ELSE cpSync(m.fs, src_path, target_path)

\* [ok |-> FALSE] when a filesystem call throws; fs is the workspace then
process_dep(f, src_path, target_path, is_link) ==
  LET m == mkdirSync(f, Front(target_path)) IN
  IF ~m.ok THEN m
  ELSE LET f2 == clear_target(m.fs, target_path) IN
       IF is_link THEN symlinkSync(f2, src_path, target_path)
       ELSE cpSync(f2, src_path, target_path)

-----------------------------------------------------------------------------
(* process_all_deps: the process_dep calls its loops make, in order *)

\* the calls for one repo with the grpc branch of the packages loop left out
repo_calls_without_grpc_protos(type, repo) ==
  Map(repo.deps.packages, LAMBDA pkg :
    [src    |-> <<"packages", pkg.name>>,
     target |-> <<type, repo.name, "repo", type, pkg.name, "contents">>,
     ckind  |-> type, cname |-> repo.name, list |-> "packages",
     dname  |-> pkg.name, art |-> "contents"])
  \o Map(repo.deps.apps, LAMBDA app :
       [src    |-> <<type, app, "protos">>,
        target |-> <<type, repo.name, "repo", type, app, "protos">>,
        ckind  |-> type, cname |-> repo.name, list |-> "apps",
        dname  |-> app, art |-> "protos"])

\* the calls for one repo of repos[type]
repo_calls(type, repo) ==
  Flatten(Map(repo.deps.packages, LAMBDA pkg :
    <<[src    |-> <<"packages", pkg.name>>,
       target |-> <<type, repo.name, "repo", type, pkg.name, "contents">>,
       ckind  |-> type, cname |-> repo.name, list |-> "packages",
       dname  |-> pkg.name, art |-> "contents"]>>
    \o (IF pkg.grpc
        THEN <<[src    |-> <<"packages", pkg.name, "protos">>,
                target |-> <<type, repo.name, "repo", type, pkg.name, "protos">>,
                ckind  |-> type, cname |-> repo.name, list |-> "packages",
                dname  |-> pkg.name, art |-> "protos"]>>
        ELSE <<>>)))
  \o Map(repo.deps.apps, LAMBDA app :
       [src    |-> <<type, app, "protos">>,
        target |-> <<type, repo.name, "repo", type, app, "protos">>,
        ckind  |-> type, cname |-> repo.name, list |-> "apps",
        dname  |-> app, art |-> "protos"])

\* the loops with the kinds taken apps first
process_all_deps_apps_first(rs) ==
  Flatten(Map(<<"apps", "packages">>, LAMBDA type :
    Flatten(Map(rs[type], LAMBDA repo : repo_calls(type, repo)))))

process_all_deps(rs) ==
  Flatten(Map(<<"packages", "apps">>, LAMBDA type :
    Flatten(Map(rs[type], LAMBDA repo : repo_calls(type, repo)))))

-----------------------------------------------------------------------------
(* create_all_grpc_stubs: the stub steps its loops make, in order *)

repo_stubs(type, repo) ==
  <<[kind |-> "server", repo_path |-> <<type, repo.name>>, dep_path |-> <<>>]>>
  \o Map(repo.deps.apps, LAMBDA app_name :
       [kind |-> "client", repo_path |-> <<type, repo.name>>, dep_path |-> <<"apps", app_name>>])
  \o Map(SelectSeq(repo.deps.packages, LAMBDA pkg : pkg.grpc), LAMBDA pkg :
       [kind |-> "client", repo_path |-> <<type, repo.name>>, dep_path |-> <<"packages", pkg.name>>])

create_all_grpc_stubs(rs) ==
  Flatten(Map(<<"apps", "packages">>, LAMBDA type :
    Flatten(Map(rs[type], LAMBDA repo : repo_stubs(type, repo)))))

\* the guard of the server stub in create_all_grpc_stubs
wants_server_stub(f, repo_path) ==
  /\ existsSync(f, repo_path \o <<"protos", "index.proto">>)
  /\ existsSync(f, repo_path \o <<"gen-grpc-stubs.sh">>)

\* create_grpc_client_stub / create_grpc_server_stub up to the generator call:
\* where index.proto is looked for and where the output directory is made
proto_file_path(st) ==
  IF st.kind = "client"
  THEN st.repo_path \o <<"repo">> \o st.dep_path \o <<"protos", "index.proto">>
  ELSE st.repo_path \o <<"protos", "index.proto">>

output_path(st) ==
  IF st.kind = "client"
  THEN st.repo_path \o <<"repo">> \o st.dep_path \o <<"stub">>
  ELSE st.repo_path \o <<"generated", "stub">>

-----------------------------------------------------------------------------
(* The workspace on disk before the session *)

\* every repo directory holds protos/index.proto; a package also holds its
\* generator script and a version-control directory
repo_files(kind, name) ==
  {<<kind>>, <<kind, name>>, <<kind, name, "protos">>, <<kind, name, "protos", "index.proto">>}
  \cup (IF kind = "packages"
        THEN {<<kind, name, "gen-grpc-stubs.sh">>, <<kind, name, ".git">>, <<kind, name, ".git", "HEAD">>}
        ELSE {})

IsFilePath(p) == p[Len(p)] \in {"index.proto", "gen-grpc-stubs.sh", "HEAD"}

InitFs(rs) ==
  LET ps == UNION ({repo_files("apps", r.name) : r \in Range(rs.apps)}
                   \cup {repo_files("packages", r.name) : r \in Range(rs.packages)})
  IN [p \in ps |-> IF IsFilePath(p) THEN File ELSE Dir]

-----------------------------------------------------------------------------
(* The session: show_menu, the command handlers, the main IIFE *)

NoDep == [src |-> <<>>, target |-> <<>>, ckind |-> "", cname |-> "", list |-> "",
          dname |-> "", art |-> ""]

Init ==
  /\ repos \in Workspaces
  /\ fs = InitFs(repos)
  /\ pc = "menu"
  /\ cmd = "none"
  /\ chk = NoCheck
  /\ i = 0
  /\ dep = NoDep
  /\ calls = <<>>
  /\ gens = <<>>
  /\ out = <<>>
  /\ fs0 = fs
  /\ exitCode = -1
  /\ runs = 0

\* a handler whose cycle branch lacks the return
on_cycle_without_return(c) == [pc |-> IF c = "grpc" THEN "grpc" ELSE "process", exitCode |-> -1]

\* what a handler does once check_circular_deps has reported a cycle: it
\* returns, nothing is awaited any more and the process ends with status 0
on_cycle(c) == [pc |-> "exited", exitCode |-> 0]

\* commands.link / commands.clone / commands.grpc up to the first step of the
\* work: get_repos_with_deps, check_circular_deps, the early return
Command(c) ==
  /\ pc = "menu"
  /\ runs < MaxRuns
  /\ runs' = runs + 1
  /\ cmd' = c
  /\ chk' = check_circular_deps(repos)
  /\ calls' = <<>>
  /\ gens' = <<>>
  /\ fs0' = fs
  /\ i' = 1
  /\ IF chk'.ret
     THEN /\ out' = <<"Circular dependency detected in", "Circular dependencies detected!">>
          /\ pc' = on_cycle(c).pc
          /\ exitCode' = on_cycle(c).exitCode
     ELSE /\ out' = <<>>
          /\ pc' = IF c = "grpc" THEN "grpc" ELSE "process"
          /\ exitCode' = exitCode
  /\ UNCHANGED <<repos, fs, dep>>

Link == Command("link")
Clone == Command("clone")
Grpc == Command("grpc")

\* a process_all_deps in which a throw of process_dep is swallowed per edge
on_throw_next_edge(k) == [pc |-> "process", exitCode |-> -1, i |-> k + 1]

\* a throw of process_dep at edge k: process_all_deps and the handler catch
\* nothing, so it reaches the catch of the main IIFE, which exits with status 1
on_throw(k) == [pc |-> "exited", exitCode |-> 1, i |-> k]

\* one process_dep call of process_all_deps
ProcessDep ==
  /\ pc = "process"
  /\ i <= Len(process_all_deps(repos))
  /\ LET c == process_all_deps(repos)[i]
         r == process_dep(fs, c.src, c.target, cmd = "link")
     IN /\ fs' = r.fs
        /\ dep' = c
        /\ calls' = Append(calls, [call |-> c, ok |-> r.ok])
        /\ IF r.ok
           THEN /\ i' = i + 1
                /\ UNCHANGED <<pc, exitCode>>
           ELSE /\ pc' = on_throw(i).pc
                /\ exitCode' = on_throw(i).exitCode
                /\ i' = on_throw(i).i
  /\ UNCHANGED <<repos, cmd, chk, gens, out, fs0, runs>>

\* the end of process_all_deps: the success line, then show_menu again
ProcessDone ==
  /\ pc = "process"
  /\ i > Len(process_all_deps(repos))
  /\ out' = Append(out, "All dependencies processed successfully")
  /\ pc' = "menu"
  /\ UNCHANGED <<repos, fs, cmd, chk, i, dep, calls, gens, fs0, exitCode, runs>>

\* one stub of create_all_grpc_stubs.  The generator is an external process:
\* it exits zero or not; what it writes under its output directory is not modelled
Stub ==
  /\ pc = "grpc"
  /\ i <= Len(create_all_grpc_stubs(repos))
  /\ LET st == create_all_grpc_stubs(repos)[i] IN
     IF st.kind = "server" /\ ~wants_server_stub(fs, st.repo_path)
     THEN /\ i' = i + 1
          /\ UNCHANGED <<fs, gens, pc, exitCode>>
     ELSE IF ~existsSync(fs, proto_file_path(st))
     THEN /\ gens' = Append(gens, [step |-> st, res |-> "index.proto not found"])
          /\ pc' = "exited"
          /\ exitCode' = 1
          /\ UNCHANGED <<fs, i>>
     ELSE LET m == mkdirSync(fs, output_path(st)) IN
          /\ fs' = m.fs
          /\ IF m.ok
             THEN /\ \E res \in {"ok", "failed"} : gens' = Append(gens, [step |-> st, res |-> res])
                  /\ i' = i + 1
                  /\ UNCHANGED <<pc, exitCode>>
             ELSE /\ gens' = Append(gens, [step |-> st, res |-> "mkdir failed"])
                  /\ pc' = "exited"
                  /\ exitCode' = 1
                  /\ UNCHANGED i
  /\ UNCHANGED <<repos, cmd, chk, dep, calls, out, fs0, runs>>

StubsDone ==
  /\ pc = "grpc"
  /\ i > Len(create_all_grpc_stubs(repos))
  /\ out' = Append(out, "gRPC stubs generated successfully")
  /\ pc' = "menu"
  /\ UNCHANGED <<repos, fs, cmd, chk, i, dep, calls, gens, fs0, exitCode, runs>>

\* the menu's Exit choice: process.exit(0)
Exit ==
  /\ pc = "menu"
  /\ pc' = "exited"
  /\ exitCode' = 0
  /\ UNCHANGED <<repos, fs, cmd, chk, i, dep, calls, gens, out, fs0, runs>>

Next == Link \/ Clone \/ Grpc \/ ProcessDep \/ ProcessDone \/ Stub \/ StubsDone \/ Exit

Spec == Init /\ [][Next]_vars

-----------------------------------------------------------------------------
(* process_dep on its own: one source, one target, one mode, run twice over *)
(* every prior state of the target                                          *)

DepTarget == <<"apps", "a", "repo", "apps", "b", "contents">>

DepSources == {<<"packages", "b">>, <<"packages", "b", "protos">>, <<"packages", "ghost">>}

\* apps/a and packages/b on disk
DepBase ==
  InitFs([apps     |-> <<[name |-> "a", deps |-> [apps |-> <<>>, packages |-> <<>>]]>>,
          packages |-> <<[name |-> "b", deps |-> [apps |-> <<>>, packages |-> <<>>]]>>])

\* what packages/b may hold besides: a dependency cache, a link left by an
\* earlier link of its own dependencies
DepExtras(x) ==
  (IF "cache" \in x
   THEN (<<"packages", "b", "node_modules">> :> Dir)
        @@ (<<"packages", "b", "node_modules", "m.js">> :> File)
   ELSE <<>>)
  @@
  (IF "linked" \in x
   THEN (<<"packages", "b", "repo">> :> Dir)
        @@ (<<"packages", "b", "repo", "c">> :> Symlink(<<"packages", "c">>))
   ELSE <<>>)

DepParents ==
  (<<"apps", "a", "repo">> :> Dir) @@ (<<"apps", "a", "repo", "apps">> :> Dir)
  @@ (<<"apps", "a", "repo", "apps", "b">> :> Dir)

PriorStates == {"none", "absent", "link", "dangling", "dir", "file"}

DepPrior(prior) ==
  CASE prior = "none"     -> <<>>
    [] prior = "absent"   -> DepParents
    [] prior = "link"     -> DepParents @@ (DepTarget :> Symlink(<<"packages", "b">>))
    [] prior = "dangling" -> DepParents @@ (DepTarget :> Symlink(<<"packages", "gone">>))
    [] prior = "dir"      -> DepParents @@ (DepTarget :> Dir) @@ (Append(DepTarget, "old") :> File)
    [] prior = "file"     -> DepParents @@ (DepTarget :> File)

InitDep ==
  /\ repos = [apps |-> <<>>, packages |-> <<>>]
  /\ \E x \in SUBSET {"cache", "linked"}, prior \in PriorStates :
       fs = DepPrior(prior) @@ DepExtras(x) @@ DepBase
  /\ \E src \in DepSources : dep = [NoDep EXCEPT !.src = src, !.target = DepTarget]
  /\ cmd \in {"link", "clone"}
  /\ pc = "dep"
  /\ chk = NoCheck
  /\ i = 0
  /\ calls = <<>>
  /\ gens = <<>>
  /\ out = <<>>
  /\ fs0 = fs
  /\ exitCode = -1
  /\ runs = 0

\* process_dep(dep.src, dep.target, is_link), at most twice
DepRun ==
  /\ pc = "dep"
  /\ runs < 2
  /\ LET r == process_dep(fs, dep.src, dep.target, cmd = "link")
     IN /\ fs' = r.fs
        /\ calls' = Append(calls, [call |-> dep, ok |-> r.ok])
  /\ runs' = runs + 1
  /\ UNCHANGED <<repos, pc, cmd, chk, i, dep, gens, out, fs0, exitCode>>

NextDep == DepRun

SpecDep == InitDep /\ [][NextDep]_vars

-----------------------------------------------------------------------------
(* Notions the properties are stated with *)

\* dep_name names the repo at index n: the first match in apps-then-packages order
Resolves(all, dep_name, n) ==
  /\ all[n].name = dep_name
  /\ \A m \in 1..(n - 1) : all[m].name # dep_name

Edge(all, m, n) == \E dep_name \in Range(all_deps(all[m])) : Resolves(all, dep_name, n)

RECURSIVE ReachWithin(_, _, _)
ReachWithin(all, S, steps) ==
  IF steps = 0 THEN S
  ELSE ReachWithin(all, S \cup {n \in 1..Len(all) : \E m \in S : Edge(all, m, n)}, steps - 1)

\* the nodes reachable from m by one edge or more
Reach(all, m) == ReachWithin(all, {n \in 1..Len(all) : Edge(all, m, n)}, Len(all))

OnCycle(all, n) == n \in Reach(all, n)

HasCycle(all) == \E n \in 1..Len(all) : OnCycle(all, n)

Discovered(name) == \E n \in 1..Len(all_repos(repos)) : all_repos(repos)[n].name = name

Count(s, P(_)) == Len(SelectSeq(s, P))

Checked == cmd \in {"link", "clone", "grpc"}

\* the entry at the target and everything below it
TargetView(f, target) ==
  LET l == lstat(f, target) IN
  IF ~l.ok THEN <<>>
  ELSE [q \in {x \in DOMAIN f : IsPrefix(l.path, x)} |-> f[q]]

-----------------------------------------------------------------------------
(* Properties *)

\* C1: in a run of link, clone or grpc in which check_circular_deps reports a
\* cycle, no process_dep call and no generator invocation is made, and the
\* workspace is as it was when the run started.
C1_CycleAbortsBeforeAnyWork ==
  (Checked /\ chk.ret) => (calls = <<>> /\ gens = <<>> /\ fs = fs0 /\ pc = "exited")

C1_Witness ==
  /\ cmd = "clone" /\ chk.ret /\ pc = "exited"
  /\ Len(process_all_deps(repos)) = 2

\* C2: whenever the graph, with names resolved by first match in
\* apps-then-packages order, has a directed cycle (a self-dependency and a cycle
\* out of reach of the first repo included), check_circular_deps returns true.
C2_CycleIsReported ==
  (Checked /\ HasCycle(all_repos(repos))) => chk.ret

\* a cycle that the repo visited first does not reach
C2_Witness ==
  /\ Checked /\ chk.ret
  /\ Len(all_repos(repos)) >= 2
  /\ ~OnCycle(all_repos(repos), 1)
  /\ \A n \in Reach(all_repos(repos), 1) : ~OnCycle(all_repos(repos), n)

\* C3 (as claimed): on a graph without a cycle check_circular_deps returns false
\* and has expanded the dependency list of every app and every package exactly once.
C3_AcyclicVisitsEveryRepoOnce ==
  (Checked /\ ~HasCycle(all_repos(repos))) =>
     /\ ~chk.ret
     /\ \A n \in 1..Len(all_repos(repos)) : Count(chk.expanded, LAMBDA e : e = n) = 1

\* C4 (as claimed): the repo named in the diagnostic lies on a directed cycle.
C4_DiagnosticNamesCycleNode ==
  (Checked /\ chk.ret) =>
     \E n \in 1..Len(all_repos(repos)) :
        all_repos(repos)[n].name = chk.diag /\ OnCycle(all_repos(repos), n)

\* C5: when process_all_deps completes, its process_dep calls are exactly one
\* `contents` per declared package dependency, one `protos` more for each of
\* those with grpc true, and one `protos` (no `contents`) per declared app
\* dependency, each for the repo that declares it.
C5_Expected(kind, repo, list, dname, art) ==
  IF list = "packages"
  THEN Count(repo.deps.packages, LAMBDA d : d.name = dname /\ (art = "protos" => d.grpc))
  ELSE IF art = "protos" THEN Count(repo.deps.apps, LAMBDA d : d = dname) ELSE 0

C5_CallsAreTheDeclaredEdges ==
  (cmd \in {"link", "clone"} /\ pc = "menu" /\ runs > 0) =>
     /\ \A k \in 1..Len(calls) :
          /\ calls[k].ok
          /\ \E r \in Range(repos[calls[k].call.ckind]) : r.name = calls[k].call.cname
     /\ \A kind \in Kinds : \A r \in Range(repos[kind]) :
        \A list \in Kinds, dname \in Names, art \in {"contents", "protos"} :
          Count(calls, LAMBDA c : /\ c.call.ckind = kind /\ c.call.cname = r.name
                                  /\ c.call.list = list /\ c.call.dname = dname
                                  /\ c.call.art = art)
            = C5_Expected(kind, r, list, dname, art)

C5_Witness ==
  /\ cmd = "link" /\ pc = "menu" /\ Len(calls) = 3
  /\ \E k \in 1..3 : calls[k].call.list = "apps"
  /\ \E k \in 1..3 : calls[k].call.list = "packages" /\ calls[k].call.art = "protos"

\* C6: a second process_dep with the same source, target and mode leaves the
\* target as the first one left it, in link mode and in copy mode.
C6_SecondRunChangesNothing ==
  [][(pc = "dep" /\ runs = 1 /\ runs' = 2) =>
       TargetView(fs', dep.target) = TargetView(fs, dep.target)]_vars

\* a second copy over the tree the first copy made
C6_Witness ==
  /\ pc = "dep" /\ runs = 2 /\ cmd = "clone"
  /\ calls[1].ok /\ calls[2].ok
  /\ lstat(fs, dep.target).ok /\ lstat(fs, dep.target).node.t = "dir"
  /\ Append(dep.target, "protos") \in DOMAIN fs

\* C7 (as claimed): with the source an existing directory, process_dep completes
\* whatever the target was before and leaves it a link to the source in link
\* mode, a real directory in copy mode, with nothing of the prior artifact left.
C7_TargetConvergesToMode ==
  (pc = "dep" /\ runs = 1 /\ lstat(fs0, dep.src).ok /\ lstat(fs0, dep.src).node.t = "dir") =>
     /\ calls[1].ok
     /\ lstat(fs, dep.target).ok
     /\ lstat(fs, dep.target).node = (IF cmd = "link" THEN Symlink(dep.src) ELSE Dir)
     /\ Append(dep.target, "old") \notin DOMAIN fs

\* C8 (as claimed): for a declared dependency whose name matches no discovered
\* app or package, process_all_deps creates nothing and does not raise.
C8_DanglingDependencyIsSkipped ==
  \A k \in 1..Len(calls) :
     (cmd \in {"link", "clone"} /\ ~Discovered(calls[k].call.dname)) =>
        /\ calls[k].ok
        /\ ~lstat(fs, calls[k].call.target).ok
        /\ ~lstat(fs, Front(calls[k].call.target)).ok

\* C9 (as claimed): when an app and a package share the name N, a dependency on
\* N is followed into the app by the cycle detector and is materialized from
\* the app's directory.
C9_CollisionSelectsApp ==
  \A k \in 1..Len(calls) :
     LET N == calls[k].call.dname IN
     (/\ cmd \in {"link", "clone"}
      /\ \E a \in Range(repos.apps) : a.name = N
      /\ \E p \in Range(repos.packages) : p.name = N) =>
        /\ find(all_repos(repos), N) \in 1..Len(repos.apps)
        /\ IsPrefix(<<"apps", N>>, calls[k].call.src)

\* C10 (as claimed): two materializations of one run that differ in consumer,
\* dependency or artifact type never write to the same target path.
C10_TargetsAreDistinct ==
  \A k, l \in 1..Len(calls) :
     (/\ cmd \in {"link", "clone"}
      /\ <<calls[k].call.ckind, calls[k].call.cname, calls[k].call.list,
           calls[k].call.dname, calls[k].call.art>>
         # <<calls[l].call.ckind, calls[l].call.cname, calls[l].call.list,
             calls[l].call.dname, calls[l].call.art>>) =>
        calls[k].call.target # calls[l].call.target


\* C11 (as claimed): a failure while materializing one edge does not prevent
\* the remaining edges from being attempted: a run of process_all_deps that
\* has ended has made every one of its process_dep calls.
C11_FailureDoesNotStopRemainingEdges ==
  (cmd \in {"link", "clone"} /\ ~chk.ret /\ pc \in {"menu", "exited"}) =>
     Len(calls) = Len(process_all_deps(repos))

\* C11 (amended): a failure while materializing one edge ends process_all_deps:
\* the failed call is the last one made, and it is the call of the edge the
\* loops had reached, so no remaining edge is attempted.
C11_FailureStopsRemainingEdges ==
  \A k \in 1..Len(calls) :
     (cmd \in {"link", "clone"} /\ ~calls[k].ok) =>
        /\ k = Len(calls)
        /\ calls[k].call = process_all_deps(repos)[k]
        /\ i = k

\* the first of two edges failed and the second was never attempted
C11_Witness ==
  /\ cmd = "clone" /\ pc = "exited"
  /\ Len(calls) = 1 /\ ~calls[1].ok
  /\ Len(process_all_deps(repos)) = 2


\* C12 (as claimed): a process_dep call that throws ends the run: the process
\* exits with the error, the success line is not printed, nothing is attempted
\* afterwards, and the targets written by the earlier calls of the run are left
\* as they were.
C12_FailureAbortsRunWithoutRollback ==
  [][/\ (pc = "process" /\ Len(calls') = Len(calls) + 1 /\ ~calls'[Len(calls')].ok) =>
          /\ pc' = "exited" /\ exitCode' = 1
          /\ "All dependencies processed successfully" \notin Range(out')
          /\ \A k \in 1..Len(calls) :
               TargetView(fs', calls[k].call.target) = TargetView(fs, calls[k].call.target)
     /\ (pc = "exited") => (calls' = calls /\ fs' = fs /\ out' = out)]_vars


\* C13 (as claimed): in create_all_grpc_stubs a generator invocation that exits
\* non-zero leaves the run going: every later stub is still attempted and the
\* run ends reporting success.
C13_GeneratorFailureIsNotFatal ==
  (cmd = "grpc" /\ \E k \in 1..Len(gens) : gens[k].res = "failed") =>
     \/ pc = "grpc" /\ exitCode = -1
     \/ /\ i > Len(create_all_grpc_stubs(repos))
        /\ "gRPC stubs generated successfully" \in Range(out)

\* C14 (as claimed): in create_all_grpc_stubs a missing index.proto for one edge
\* is caught for that edge and the run continues with the next edge.
C14_MissingProtoIsCaughtPerEdge ==
  \A k \in 1..Len(gens) :
     (cmd = "grpc" /\ gens[k].res = "index.proto not found") =>
        /\ exitCode # 1
        /\ i > k

\* C15 (as claimed): a run that ends on a detected cycle or on a failed
\* materialization ends the process with a non-zero exit status.
C15_FatalErrorExitsNonZero ==
  (/\ pc = "exited"
   /\ \/ Checked /\ chk.ret
      \/ cmd \in {"link", "clone"} /\ Len(calls) > 0 /\ ~calls[Len(calls)].ok) =>
     exitCode >= 1

\* the names a repo declares in one of its two lists, in declared order
DeclaredNames(repo, list) ==
  IF list = "packages" THEN Map(repo.deps.packages, LAMBDA d : d.name) ELSE repo.deps.apps

\* the calls made so far for one list of one repo, one per declared dependency
EdgeCalls(kind, name, list) ==
  SelectSeq(calls, LAMBDA c : /\ c.call.ckind = kind /\ c.call.cname = name
                              /\ c.call.list = list
                              /\ (list = "packages" => c.call.art = "contents"))

RepoIndex(kind, name) == CHOOSE n \in 1..Len(repos[kind]) : repos[kind][n].name = name

\* C16: process_all_deps makes its calls one at a time in a fixed order: all
\* calls of package repos before any call of an app repo, repos of one kind
\* in discovery order, and the dependencies of one list of one repo in the
\* order they are declared.
C16_EdgesInFixedOrder ==
  cmd \in {"link", "clone"} =>
     /\ \A k, l \in 1..Len(calls) :
          k < l =>
            /\ calls[k].call.ckind = "apps" => calls[l].call.ckind = "apps"
            /\ calls[k].call.ckind = calls[l].call.ckind =>
                 RepoIndex(calls[k].call.ckind, calls[k].call.cname)
                   <= RepoIndex(calls[l].call.ckind, calls[l].call.cname)
     /\ \A kind \in Kinds : \A r \in Range(repos[kind]) : \A list \in Kinds :
          IsPrefix(Map(EdgeCalls(kind, r.name, list), LAMBDA c : c.call.dname),
                   DeclaredNames(r, list))
     /\ Len(calls) \in {i - 1, i}

\* a completed run with a call for a package repo and a call for an app repo
C16_Witness ==
  /\ cmd = "link" /\ pc = "menu" /\ Len(calls) = 2
  /\ calls[1].call.ckind = "packages"
  /\ calls[2].call.ckind = "apps"

\* C17: after process_dep in copy mode nothing at or below the target has a
\* path segment .git or node_modules, whatever the source holds.
C17_CopyExcludesVcsAndCache ==
  (pc = "dep" /\ cmd = "clone" /\ runs >= 1) =>
     \A q \in DOMAIN TargetView(fs, dep.target) :
        \A n \in 1..Len(q) : q[n] \notin {".git", "node_modules"}

\* a copy of packages/b, which holds .git and node_modules, has been made
C17_Witness ==
  /\ pc = "dep" /\ cmd = "clone" /\ runs = 1 /\ calls[1].ok
  /\ dep.src = <<"packages", "b">>
  /\ <<"packages", "b", "node_modules", "m.js">> \in DOMAIN fs
  /\ <<"packages", "b", ".git", "HEAD">> \in DOMAIN fs
  /\ Append(dep.target, "gen-grpc-stubs.sh") \in DOMAIN fs

\* the repo directories, and the edges consumer -> repo directory used as
\* source, of the process_dep calls that completed
RepoDirs == Kinds \X Names

MaterializedEdges ==
  {<<<<c.call.ckind, c.call.cname>>, <<c.call.src[1], c.call.src[2]>>>> :
     c \in {x \in Range(calls) : x.ok}}

RECURSIVE MaterializedWithin(_, _)
MaterializedWithin(S, steps) ==
  IF steps = 0 THEN S
  ELSE MaterializedWithin(S \cup {n \in RepoDirs : \E m \in S : <<m, n>> \in MaterializedEdges},
                          steps - 1)

MaterializedInto(m) ==
  MaterializedWithin({n \in RepoDirs : <<m, n>> \in MaterializedEdges}, Cardinality(RepoDirs))

\* C18 (as claimed): when check_circular_deps returned false, the graph of the
\* edges materialized has no cycle: no repo directory is materialized,
\* directly or through others, into itself.
C18_MaterializedGraphIsAcyclic ==
  (cmd \in {"link", "clone"} /\ ~chk.ret) =>
     \A m \in RepoDirs : m \notin MaterializedInto(m)

\* every declared dependency names a repo of the kind of the list it is in
DependenciesExist ==
  \A kind \in Kinds : \A r \in Range(repos[kind]) :
     /\ \A app \in Range(r.deps.apps) : \E x \in Range(repos.apps) : x.name = app
     /\ \A pkg \in Range(r.deps.packages) : \E x \in Range(repos.packages) : x.name = pkg.name

\* C19 (as claimed): for every client stub create_all_grpc_stubs drives, the
\* index.proto that create_grpc_client_stub looks for lies in the target at
\* which process_all_deps materialized the protos of that dependency of that
\* consumer; so once a link or clone of a graph whose dependencies all exist
\* has completed, the file is there for every such stub.
C19_ClientStubReadsMaterializedProtos ==
  (cmd \in {"link", "clone"} /\ pc = "menu" /\ runs > 0 /\ DependenciesExist) =>
     \A k \in 1..Len(create_all_grpc_stubs(repos)) :
        LET st == create_all_grpc_stubs(repos)[k] IN
        st.kind = "client" =>
           /\ \E j \in 1..Len(calls) :
                 LET c == calls[j].call IN
                 /\ <<c.ckind, c.cname>> = st.repo_path
                 /\ <<c.list, c.dname>> = st.dep_path
                 /\ c.art = "protos"
                 /\ Append(c.target, "index.proto") = proto_file_path(st)
           /\ existsSync(fs, proto_file_path(st))

\* C20 (as claimed): for a dependency declared in an apps list, by a consumer
\* of either kind, the source materialized is the protos directory of that app.
C20_AppDependencySourceIsAppProtos ==
  \A k \in 1..Len(calls) :
     (cmd \in {"link", "clone"} /\ calls[k].call.list = "apps") =>
        calls[k].call.src = <<"apps", calls[k].call.dname, "protos">>

====
